---- MODULE Spec2Model ----
(***************************************************************************)
(* A model of two pieces of bokehjs:                                       *)
(*   - RendererView (models/renderers/renderer.ts): the lazily computed,   *)
(*     cached coordinate transform and the signals that invalidate it      *)
(*     (SpecRV), the resolution of a symbolic node (SpecRN) and the        *)
(*     mirroring of a renderer group's visibility (SpecGV);                *)
(*   - RangeTool / RangeToolView (models/tools/gestures/range_tool.ts):    *)
(*     the synchronisation of a box overlay with one or two ranges         *)
(*     (SpecRT).                                                           *)
(* The parts are independent; each has its own specification and the       *)
(* variables of the others stay at their initial values.                   *)
(***************************************************************************)
EXTENDS Integers, Sequences, FiniteSets, TLC

\* Bounds of the model.
MaxScale == 1     \* scale objects a frame may hold per range name: 1..MaxScale
MaxInit == 3      \* _initialize_coordinates runs explored per behaviour
MaxVal == 1       \* range and overlay bounds take the values 0..MaxVal
MaxEvents == 2    \* events explored after the tool's construction
MaxBox == 1       \* a bounding box starts at 0..MaxBox and is 2..2*MaxBox wide and high
MaxOffset == 1    \* a node's offset is in -MaxOffset..MaxOffset
MaxRenderers == 2 \* renderers of the plot that may share the group

VARIABLES
  \* ---- RendererView ----
  rv_connected,     \* connect_signals() has run on the view
  x_range_name,     \* model.x_range_name
  y_range_name,     \* model.y_range_name
  coordinates,      \* model.coordinates: 0 = null, else the CoordinateMapping
  frame,            \* plot_view.frame: [xs, ys], scale per range name, 0 = absent
  _coordinates,     \* the view's cache; NoTransform = unset
  init_count,       \* history: runs of _initialize_coordinates so far
  last_op,          \* history: the operation that acted last
  read_result,      \* history: outcome of the last read of `coordinates`
  invalidated,      \* history: an invalidating event on a connected view, no read since
  run_inits,        \* history: _initialize_coordinates runs since the last invalidating event
  run_ok_inits,     \* history: those of them that returned a transform
  run_first,        \* history: first transform a read returned since the last invalidating event
  run_reads,        \* history: reads since the last invalidating event (counted up to 2)
  conn_at,          \* history: init_count when connect_signals() ran
  \* ---- RangeTool / RangeToolView ----
  phase,            \* "attrs" (constructor), "model" (RangeTool.initialize done),
                    \* "view" (RangeToolView.initialize done), "connected"
  xr,               \* the Range1d the tool's x_range may point to: [start, end]
  yr,               \* the Range1d the tool's y_range may point to
  x_range,          \* tool.x_range: "xr" or "null"
  y_range,          \* tool.y_range: "yr" or "null"
  x_interaction,    \* tool.x_interaction
  y_interaction,    \* tool.y_interaction
  active,           \* tool.active
  overlay,          \* tool.overlay (a BoxAnnotation)
  listeners,        \* the ranges whose `change` the view is connected to
  todo,             \* calls still to run in the handler under way, innermost first
  ev,               \* history: the event being handled (or handled last)
  calls,            \* history: the calls made for that event, in order: [proc, by]
  pre,              \* history: ranges and overlay bounds when the event under way
                    \* began (blank once its handler has ended and nothing is emitted)
  drag,             \* history: the bounds the drag gave the overlay, if the event is a drag
  emitting,         \* history: the range whose `change` is being emitted right now
  n_events,         \* history: events taken since connect_signals()
  \* ---- RendererView.resolve_node ----
  node,             \* the Node to resolve: [target, symbol, offset]
  rn_registered,    \* plot_view.renderer_view(node.target) finds a view
  rn_bbox,          \* the bbox the resolved target exposes, NoBBox if it has none
  rn_result,        \* history: what resolve_node(node) returned
  \* ---- Renderer / RendererView and their RendererGroup ----
  group_visible,    \* group.visible
  r_group,          \* per renderer: model.group, "g" or "null"
  r_visible,        \* per renderer: model.visible
  r_view,           \* per renderer: "none" while its view is not connected, else the
                    \* group connect_signals() found (its listener is on that group)
  _has_finished,    \* per renderer: the view's _has_finished
  gv_last           \* history: the operation that acted last: [op, r, painted]

rvVars == <<rv_connected, x_range_name, y_range_name, coordinates, frame,
            _coordinates, init_count, last_op, read_result, invalidated,
            run_inits, run_ok_inits, run_first, run_reads, conn_at>>

rtVars == <<phase, xr, yr, x_range, y_range, x_interaction, y_interaction, active,
            overlay, listeners, todo, ev, calls, pre, drag, emitting, n_events>>

rnVars == <<node, rn_registered, rn_bbox, rn_result>>

gvVars == <<group_visible, r_group, r_visible, r_view, _has_finished, gv_last>>

vars == <<rvVars, rtVars, rnVars, gvVars>>

(***************************************************************************)
(* RendererView                                                            *)
(***************************************************************************)

RangeNames == {"default", "extra"}
Mappings == {1}                 \* explicit CoordinateMapping objects a model may carry
Scales == 0..MaxScale           \* 0: the name is absent from the frame's map

NoTransform == [id |-> 0, src |-> "none", x |-> 0, y |-> 0]

\* new CoordinateTransform(x_scale, y_scale): a fresh object (id) over two scales.
CoordinateTransform(id, x_scale, y_scale) ==
  [id |-> id, src |-> "scales", x |-> x_scale, y |-> y_scale]

\* coordinates.get_transform(frame): a fresh transform of the explicit mapping.
get_transform(mapping, fr, id) ==
  [id |-> id, src |-> "mapping", x |-> mapping, y |-> 0]

\* What a transform is made of, the object's identity left aside.
Content(t) == [src |-> t.src, x |-> t.x, y |-> t.y]

\* An _initialize_coordinates() that looks the range names up before it turns
\* to the explicit mapping.
_initialize_coordinates_lookup_first(coords, fr, xn, yn, id) ==
  LET x_scale == fr.xs[xn]
      y_scale == fr.ys[yn]
  IN  IF x_scale = 0 THEN [ok |-> FALSE, t |-> NoTransform, err |-> xn]
      ELSE IF y_scale = 0 THEN [ok |-> FALSE, t |-> NoTransform, err |-> yn]
      ELSE IF coords # 0
        THEN [ok |-> TRUE, t |-> get_transform(coords, fr, id), err |-> ""]
        ELSE [ok |-> TRUE, t |-> CoordinateTransform(id, x_scale, y_scale), err |-> ""]

\* _initialize_coordinates(): the transform, or the failed assertion's range name.
_initialize_coordinates(coords, fr, xn, yn, id) ==
  IF coords # 0
    THEN [ok |-> TRUE, t |-> get_transform(coords, fr, id), err |-> ""]
    ELSE LET x_scale == fr.xs[xn]
             y_scale == fr.ys[yn]
         IN  IF x_scale = 0 THEN [ok |-> FALSE, t |-> NoTransform, err |-> xn]
             ELSE IF y_scale = 0 THEN [ok |-> FALSE, t |-> NoTransform, err |-> yn]
             ELSE [ok |-> TRUE, t |-> CoordinateTransform(id, x_scale, y_scale), err |-> ""]

\* A getter that computes the transform but forgets to store it.
coordinates_getter_nostore(cache, coords, fr, xn, yn, id) ==
  IF cache # NoTransform
    THEN [ret |-> [ok |-> TRUE, t |-> cache, err |-> ""], cache |-> cache, ran |-> FALSE]
    ELSE [ret |-> _initialize_coordinates(coords, fr, xn, yn, id), cache |-> cache, ran |-> TRUE]

\* get coordinates(): the cached transform, or compute and cache it. A failed
\* assertion throws before the assignment, so the cache stays unset.
coordinates_getter(cache, coords, fr, xn, yn, id) ==
  IF cache # NoTransform
    THEN [ret |-> [ok |-> TRUE, t |-> cache, err |-> ""], cache |-> cache, ran |-> FALSE]
    ELSE LET r == _initialize_coordinates(coords, fr, xn, yn, id)
         IN  [ret |-> r, cache |-> IF r.ok THEN r.t ELSE cache, ran |-> TRUE]

\* A listener that does nothing.
keep_coordinates(cache) == cache

\* on_change([x_range_name, y_range_name], () => delete this._coordinates)
on_range_name_change(cache) == NoTransform

\* connect(frame.change, () => delete this._coordinates)
on_frame_change(cache) == NoTransform

Frames == [xs : [RangeNames -> Scales], ys : [RangeNames -> Scales]]

\* An invalidating event happened: a new run of reads begins.
NewRun ==
  /\ invalidated' = rv_connected
  /\ run_inits' = 0
  /\ run_ok_inits' = 0
  /\ run_first' = NoTransform
  /\ run_reads' = 0

\* RendererView.connect_signals()
RV_connect_signals ==
  /\ ~rv_connected
  /\ rv_connected' = TRUE
  /\ conn_at' = init_count
  /\ last_op' = "connect_signals"
  /\ UNCHANGED <<x_range_name, y_range_name, coordinates, frame, _coordinates,
                 init_count, read_result, invalidated, run_inits, run_ok_inits,
                 run_first, run_reads>>
  /\ UNCHANGED <<rtVars, rnVars, gvVars>>

\* model.x_range_name = n (a change: the property system is silent otherwise)
SetXRangeName ==
  \E n \in RangeNames \ {x_range_name} :
    /\ x_range_name' = n
    /\ _coordinates' = IF rv_connected THEN on_range_name_change(_coordinates) ELSE _coordinates
    /\ last_op' = "x_range_name"
    /\ NewRun
    /\ UNCHANGED <<rv_connected, y_range_name, coordinates, frame, init_count, read_result, conn_at>>
    /\ UNCHANGED <<rtVars, rnVars, gvVars>>

\* model.y_range_name = n
SetYRangeName ==
  \E n \in RangeNames \ {y_range_name} :
    /\ y_range_name' = n
    /\ _coordinates' = IF rv_connected THEN on_range_name_change(_coordinates) ELSE _coordinates
    /\ last_op' = "y_range_name"
    /\ NewRun
    /\ UNCHANGED <<rv_connected, x_range_name, coordinates, frame, init_count, read_result, conn_at>>
    /\ UNCHANGED <<rtVars, rnVars, gvVars>>

\* The frame changes (a scale is added, replaced or removed, or the frame is
\* only laid out again) and fires `change`.
FrameChange ==
  \E ax \in {"xs", "ys"}, n \in RangeNames, sc \in Scales :
    /\ frame' = [frame EXCEPT ![ax][n] = sc]
    /\ _coordinates' = IF rv_connected THEN on_frame_change(_coordinates) ELSE _coordinates
    /\ last_op' = "frame_change"
    /\ NewRun
    /\ UNCHANGED <<rv_connected, x_range_name, y_range_name, coordinates, init_count, read_result, conn_at>>
    /\ UNCHANGED <<rtVars, rnVars, gvVars>>

\* model.coordinates = m: no listener of the view is connected to this property.
SetCoordinates ==
  \E m \in ({0} \cup Mappings) \ {coordinates} :
    /\ coordinates' = m
    /\ last_op' = "coordinates"
    /\ UNCHANGED <<rv_connected, x_range_name, y_range_name, frame, _coordinates,
                   init_count, read_result, invalidated, run_inits, run_ok_inits,
                   run_first, run_reads, conn_at>>
    /\ UNCHANGED <<rtVars, rnVars, gvVars>>

\* A read of the `coordinates` getter.
ReadCoordinates ==
  /\ _coordinates = NoTransform => init_count < MaxInit
  /\ LET g == coordinates_getter(_coordinates, coordinates, frame,
                                 x_range_name, y_range_name, init_count + 1)
     IN  /\ _coordinates' = g.cache
         /\ read_result' = g.ret
         /\ init_count' = IF g.ran THEN init_count + 1 ELSE init_count
         /\ run_inits' = IF g.ran THEN run_inits + 1 ELSE run_inits
         /\ run_ok_inits' = IF g.ran /\ g.ret.ok THEN run_ok_inits + 1 ELSE run_ok_inits
         /\ run_first' = IF run_first = NoTransform /\ g.ret.ok THEN g.ret.t ELSE run_first
  /\ run_reads' = IF run_reads < 2 THEN run_reads + 1 ELSE run_reads
  /\ invalidated' = FALSE
  /\ last_op' = "read"
  /\ UNCHANGED <<rv_connected, x_range_name, y_range_name, coordinates, frame, conn_at>>
  /\ UNCHANGED <<rtVars, rnVars, gvVars>>

NextRV ==
  \/ RV_connect_signals
  \/ SetXRangeName
  \/ SetYRangeName
  \/ FrameChange
  \/ SetCoordinates
  \/ ReadCoordinates


(***************************************************************************)
(* RendererView.resolve_node                                               *)
(***************************************************************************)

\* A screen coordinate (a JavaScript number): finite, or NaN.
NaN == [nan |-> TRUE, v |-> 0]
Fin(n) == [nan |-> FALSE, v |-> n]

\* x + offset on numbers: NaN plus anything is NaN.
Plus(x, offset) == IF x.nan THEN NaN ELSE Fin(x.v + offset)

\* node.target: one of the four strings, a Renderer, or a model of another kind.
NodeTargets == {"canvas", "frame", "plot", "parent", "renderer", "model"}

\* node.symbol: the symbols of the switch, and one it does not list.
AnchorNames == {"top_left", "top_center", "top_right",
                "center_left", "center_center", "center_right",
                "bottom_left", "bottom_center", "bottom_right",
                "center", "top", "left", "right", "bottom"}
Symbols == AnchorNames \cup {"other"}

Offsets == (0 - MaxOffset)..MaxOffset

\* A BBox with its derived centres.
BBox(left, top, width, height) ==
  [has |-> TRUE, left |-> left, top |-> top,
   right |-> left + width, bottom |-> top + height,
   hcenter |-> left + (width \div 2), vcenter |-> top + (height \div 2)]

\* The target has no `bbox`, or one that is no BBox.
NoBBox == [has |-> FALSE, left |-> 0, top |-> 0, right |-> 0, bottom |-> 0,
           hcenter |-> 0, vcenter |-> 0]

BBoxes == {BBox(l, t, 2 * w, 2 * h) : l \in 0..MaxBox, t \in 0..MaxBox,
                                      w \in 1..MaxBox, h \in 1..MaxBox}

\* A target lookup that takes a view of every renderer for granted.
resolve_target_unchecked(target, registered) ==
  CASE target = "canvas" -> "canvas"
    [] target = "frame"  -> "frame"
    [] target = "plot"   -> "plot_view"
    [] target = "parent" -> "plot_view"
    [] target = "renderer" -> "renderer_view"
    [] OTHER -> "null"

\* The object the node's target stands for: the canvas, the frame, the plot
\* view (which is also the parent), the view of the target renderer if the
\* plot view has one, or null.
resolve_target(target, registered) ==
  CASE target = "canvas" -> "canvas"
    [] target = "frame"  -> "frame"
    [] target = "plot"   -> "plot_view"
    [] target = "parent" -> "plot_view"
    [] target = "renderer" -> IF registered THEN "renderer_view" ELSE "null"
    [] OTHER -> "null"

\* An xy() that adds the offset to x only.
xy_offset_x_only(x, y, offset) == [x |-> Plus(x, offset), y |-> y]

\* function xy(x, y): the point with node.offset added to both coordinates.
xy(x, y, offset) == [x |-> Plus(x, offset), y |-> Plus(y, offset)]

\* resolve_node(node)
resolve_node(nd, registered, bbox) ==
  LET target == resolve_target(nd.target, registered)
      o == nd.offset
      s == nd.symbol
  IN  IF target = "null" THEN xy(NaN, NaN, o)
      ELSE IF ~bbox.has THEN xy(NaN, NaN, o)
      ELSE CASE s = "top_left"      -> xy(Fin(bbox.left), Fin(bbox.top), o)
             [] s = "top_center"    -> xy(Fin(bbox.hcenter), Fin(bbox.top), o)
             [] s = "top_right"     -> xy(Fin(bbox.right), Fin(bbox.top), o)
             [] s = "center_left"   -> xy(Fin(bbox.left), Fin(bbox.vcenter), o)
             [] s = "center_center" -> xy(Fin(bbox.hcenter), Fin(bbox.vcenter), o)
             [] s = "center_right"  -> xy(Fin(bbox.right), Fin(bbox.vcenter), o)
             [] s = "bottom_left"   -> xy(Fin(bbox.left), Fin(bbox.bottom), o)
             [] s = "bottom_center" -> xy(Fin(bbox.hcenter), Fin(bbox.bottom), o)
             [] s = "bottom_right"  -> xy(Fin(bbox.right), Fin(bbox.bottom), o)
             [] s = "center"        -> xy(Fin(bbox.hcenter), Fin(bbox.vcenter), o)
             [] s = "top"           -> xy(NaN, Fin(bbox.top), o)
             [] s = "left"          -> xy(Fin(bbox.left), NaN, o)
             [] s = "right"         -> xy(Fin(bbox.right), NaN, o)
             [] s = "bottom"        -> xy(NaN, Fin(bbox.bottom), o)
             [] OTHER               -> xy(NaN, NaN, o)

NotResolved == [done |-> FALSE, x |-> NaN, y |-> NaN]

\* view.resolve_node(node) is called and returns.
ResolveNode ==
  /\ ~rn_result.done
  /\ LET p == resolve_node(node, rn_registered, rn_bbox)
     IN  rn_result' = [done |-> TRUE, x |-> p.x, y |-> p.y]
  /\ UNCHANGED <<node, rn_registered, rn_bbox>>
  /\ UNCHANGED <<rvVars, rtVars, gvVars>>

NextRN == ResolveNode


(***************************************************************************)
(* Renderer.visible and the RendererGroup                                  *)
(***************************************************************************)

Renderers == 1..MaxRenderers

\* connect_signals() reads model.group once; a listener is connected to the
\* `visible` property of that group, none if it is null.
connect_group_listener(group) == group

\* The listener: this.model.visible = group.visible
on_group_visible_change(visible, gvis) == gvis

\* get displayed()
displayed(visible) == visible

GVOp(op, r, painted) == [op |-> op, r |-> r, painted |-> painted]

\* RendererView.connect_signals() of renderer r
GV_connect_signals ==
  \E r \in Renderers :
    /\ r_view[r] = "none"
    /\ r_view' = [r_view EXCEPT ![r] = connect_group_listener(r_group[r])]
    /\ gv_last' = GVOp("connect_signals", r, FALSE)
    /\ UNCHANGED <<group_visible, r_group, r_visible, _has_finished>>
    /\ UNCHANGED <<rvVars, rtVars, rnVars>>

\* renderer.group = the group, or null
SetGroup ==
  \E r \in Renderers :
    /\ r_group' = [r_group EXCEPT ![r] = IF r_group[r] = "g" THEN "null" ELSE "g"]
    /\ gv_last' = GVOp("group", r, FALSE)
    /\ UNCHANGED <<group_visible, r_visible, r_view, _has_finished>>
    /\ UNCHANGED <<rvVars, rtVars, rnVars>>

\* renderer.visible = !renderer.visible
SetVisible ==
  \E r \in Renderers :
    /\ r_visible' = [r_visible EXCEPT ![r] = ~r_visible[r]]
    /\ gv_last' = GVOp("visible", r, FALSE)
    /\ UNCHANGED <<group_visible, r_group, r_view, _has_finished>>
    /\ UNCHANGED <<rvVars, rtVars, rnVars>>

\* group.visible = !group.visible: the change is notified to every listener.
SetGroupVisible ==
  /\ group_visible' = ~group_visible
  /\ r_visible' = [r \in Renderers |->
                     IF r_view[r] = "g"
                       THEN on_group_visible_change(r_visible[r], group_visible')
                       ELSE r_visible[r]]
  /\ gv_last' = GVOp("group_visible", 0, FALSE)
  /\ UNCHANGED <<r_group, r_view, _has_finished>>
  /\ UNCHANGED <<rvVars, rtVars, rnVars>>

\* RendererView.render() of renderer r: _render() runs if the view is displayed.
Render ==
  \E r \in Renderers :
    /\ r_view[r] # "none"
    /\ gv_last' = GVOp("render", r, displayed(r_visible[r]))
    /\ _has_finished' = [_has_finished EXCEPT ![r] = TRUE]
    /\ UNCHANGED <<group_visible, r_group, r_visible, r_view>>
    /\ UNCHANGED <<rvVars, rtVars, rnVars>>

NextGV ==
  \/ GV_connect_signals
  \/ SetGroup
  \/ SetVisible
  \/ SetGroupVisible
  \/ Render


(***************************************************************************)
(* RangeTool / RangeToolView                                               *)
(*                                                                         *)
(* The property system runs every change callback synchronously, inside    *)
(* the call that made the change. `todo` is therefore a stack of calls:    *)
(* a step runs the first one and puts the callbacks it triggers in front   *)
(* of the rest. A new event is taken only when `todo` is empty, so every   *)
(* handler runs to its end before anything else happens.                   *)
(***************************************************************************)

Vals == 0..MaxVal

\* A bound of a BoxAnnotation or of a Range1d: a number, a Node, or null.
\* (A range holds numbers as long as only numbers are written to it.)
Num(v) == [k |-> "num", v |-> v]
NumVals == {Num(v) : v \in Vals}
Null == [k |-> "null", v |-> 0]
frame_left == [k |-> "frame_left", v |-> 0]
frame_right == [k |-> "frame_right", v |-> 0]
frame_top == [k |-> "frame_top", v |-> 0]
frame_bottom == [k |-> "frame_bottom", v |-> 0]

\* The overlay a tool is constructed with when the caller gives none.
DEFAULT_RANGE_OVERLAY ==
  [left |-> Null, right |-> Null, top |-> Null, bottom |-> Null,
   editable |-> TRUE, movable |-> "both", resizable |-> "all"]

\* An overlay supplied by the caller.
SuppliedOverlay ==
  [left |-> Null, right |-> Null, top |-> Null, bottom |-> Null,
   editable |-> FALSE, movable |-> "none", resizable |-> "none"]

Bounds(ov) == [left |-> ov.left, right |-> ov.right, top |-> ov.top, bottom |-> ov.bottom]

\* A pending call: op is what to run, obj the object written or the caller.
Op(op, obj, a, b) == [op |-> op, obj |-> obj, a |-> a, b |-> b]

\* BoxAnnotation.update({left, right, top, bottom}): one combined write.
BoxAnnotation_update(ov, l, r, t, b) ==
  [ov EXCEPT !.left = l, !.right = r, !.top = t, !.bottom = b]

\* BoxAnnotation.clear(): no bounds remain set.
BoxAnnotation_clear(ov) ==
  [ov EXCEPT !.left = Null, !.right = Null, !.top = Null, !.bottom = Null]

\* The drag and resize engine of the box annotation: an overlay that is not
\* editable is not dragged, and a drag moves the bounds of the movable axes.
BoxAnnotation_drag(ov, l, r, t, b) ==
  [ov EXCEPT !.left   = IF ov.movable \in {"x", "both"} THEN l ELSE ov.left,
             !.right  = IF ov.movable \in {"x", "both"} THEN r ELSE ov.right,
             !.top    = IF ov.movable \in {"y", "both"} THEN t ELSE ov.top,
             !.bottom = IF ov.movable \in {"y", "both"} THEN b ELSE ov.bottom]

Draggable(ov) == ov.editable /\ ov.movable # "none"

\* Range1d.setv({start, end}), range.start = a, range.end = b: the new value.
Range1d_setv(r, o) ==
  CASE o.op = "setv"      -> [start |-> o.a, end |-> o.b]
    [] o.op = "set_start" -> [r EXCEPT !.start = o.a]
    [] o.op = "set_end"   -> [r EXCEPT !.end = o.a]

\* An initialize() that looks at the ranges only, not at the interaction flags.
RangeTool_initialize_ranges_only(ov, act, xrange, xint, yrange, yint) ==
  LET has_x == xrange # "null"
      has_y == yrange # "null"
      ed == [ov EXCEPT !.editable = act]
  IN  IF has_x /\ has_y THEN [ed EXCEPT !.movable = "both", !.resizable = "all"]
      ELSE IF has_x THEN [ed EXCEPT !.movable = "x", !.resizable = "x"]
      ELSE IF has_y THEN [ed EXCEPT !.movable = "y", !.resizable = "y"]
      ELSE [ed EXCEPT !.movable = "none", !.resizable = "none"]

\* RangeTool.initialize()
RangeTool_initialize(ov, act, xrange, xint, yrange, yint) ==
  LET has_x == xrange # "null" /\ xint
      has_y == yrange # "null" /\ yint
      ed == [ov EXCEPT !.editable = act]
  IN  IF has_x /\ has_y THEN [ed EXCEPT !.movable = "both", !.resizable = "all"]
      ELSE IF has_x THEN [ed EXCEPT !.movable = "x", !.resizable = "x"]
      ELSE IF has_y THEN [ed EXCEPT !.movable = "y", !.resizable = "y"]
      ELSE [ed EXCEPT !.movable = "none", !.resizable = "none"]

\* An update_ranges_from_overlay() that writes top to start and bottom to end.
update_ranges_from_overlay_swapped(ov, xrange, xint, yrange, yint) ==
  (IF xrange # "null" /\ xint
     THEN <<Op("setv", "xr", ov.left, ov.right)>> ELSE <<>>)
  \o (IF yrange # "null" /\ yint
     THEN <<Op("setv", "yr", ov.top, ov.bottom)>> ELSE <<>>)

\* An update_ranges_from_overlay() that assigns start and end one by one.
update_ranges_from_overlay_split(ov, xrange, xint, yrange, yint) ==
  (IF xrange # "null" /\ xint
     THEN <<Op("set_start", "xr", ov.left, Null), Op("set_end", "xr", ov.right, Null)>>
     ELSE <<>>)
  \o (IF yrange # "null" /\ yint
     THEN <<Op("set_start", "yr", ov.bottom, Null), Op("set_end", "yr", ov.top, Null)>>
     ELSE <<>>)

\* An update_ranges_from_overlay() that writes every bound range, whatever
\* the interaction flags are.
update_ranges_from_overlay_all_bound(ov, xrange, xint, yrange, yint) ==
  (IF xrange # "null"
     THEN <<Op("setv", "xr", ov.left, ov.right)>> ELSE <<>>)
  \o (IF yrange # "null"
     THEN <<Op("setv", "yr", ov.bottom, ov.top)>> ELSE <<>>)

\* RangeTool.update_ranges_from_overlay(): the writes it makes, in order. The
\* bounds are read once, before the first write.
update_ranges_from_overlay(ov, xrange, xint, yrange, yint) ==
  (IF xrange # "null" /\ xint
     THEN <<Op("setv", "xr", ov.left, ov.right)>> ELSE <<>>)
  \o (IF yrange # "null" /\ yint
     THEN <<Op("setv", "yr", ov.bottom, ov.top)>> ELSE <<>>)

\* An update_overlay_from_ranges() that warns but does not clear the overlay.
update_overlay_from_ranges_noclear(ov, xrange, x, yrange, y) ==
  LET has_x == xrange # "null"
      has_y == yrange # "null"
      upd == BoxAnnotation_update(ov,
               IF has_x THEN x.start ELSE frame_left,
               IF has_x THEN x.end ELSE frame_right,
               IF has_y THEN y.end ELSE frame_top,
               IF has_y THEN y.start ELSE frame_bottom)
  IN  [overlay |-> upd, warn |-> ~has_x /\ ~has_y]

\* RangeTool.update_overlay_from_ranges(): the overlay it leaves, and whether
\* it logged the warning.
update_overlay_from_ranges(ov, xrange, x, yrange, y) ==
  LET has_x == xrange # "null"
      has_y == yrange # "null"
      upd == BoxAnnotation_update(ov,
               IF has_x THEN x.start ELSE frame_left,
               IF has_x THEN x.end ELSE frame_right,
               IF has_y THEN y.end ELSE frame_top,
               IF has_y THEN y.start ELSE frame_bottom)
  IN  IF ~has_x /\ ~has_y
        THEN [overlay |-> BoxAnnotation_clear(upd), warn |-> TRUE]
        ELSE [overlay |-> upd, warn |-> FALSE]

\* A view initialize() that seeds the ranges from the overlay.
RangeToolView_initialize_reverse == <<Op("urfo", "initialize", Null, Null)>>

\* RangeToolView.initialize(): seeds the overlay from the ranges.
RangeToolView_initialize == <<Op("uofr", "initialize", Null, Null)>>

\* RangeToolView.connect_signals(): the ranges whose `change` it connects to.
connect_range_listeners(xrange, yrange) ==
  (IF xrange # "null" THEN {"xr"} ELSE {}) \cup (IF yrange # "null" THEN {"yr"} ELSE {})

\* A range callback wired to the wrong procedure.
on_range_change_wrong(obj) == <<Op("urfo", obj, Null, Null)>>

\* The callback connected to x_range.change and to y_range.change.
on_range_change(obj) == <<Op("uofr", obj, Null, Null)>>

\* A pan callback that also refreshes the overlay itself.
on_pan_both(state) ==
  IF state = "pan" THEN <<Op("urfo", "pan", Null, Null), Op("uofr", "pan", Null, Null)>>
  ELSE IF state = "pan:end" THEN <<Op("trigger", "pan:end", Null, Null)>>
  ELSE <<>>

\* A pan callback that notifies the plot for every state but "pan".
on_pan_trigger_any(state) ==
  IF state = "pan" THEN <<Op("urfo", "pan", Null, Null)>>
  ELSE <<Op("trigger", state, Null, Null)>>

\* The callback connected to overlay.pan.
on_pan(state) ==
  IF state = "pan" THEN <<Op("urfo", "pan", Null, Null)>>
  ELSE IF state = "pan:end" THEN <<Op("trigger", "pan:end", Null, Null)>>
  ELSE <<>>

\* An `active` callback that also freezes the overlay of an inactive tool.
on_active_change_movable(ov, act) ==
  [ov EXCEPT !.editable = act,
             !.movable = IF act THEN ov.movable ELSE "none",
             !.resizable = IF act THEN ov.resizable ELSE "none"]

\* The callback connected to the change of `active`.
on_active_change(ov, act) == [ov EXCEPT !.editable = act]

NoDrag == [left |-> Null, right |-> Null, top |-> Null, bottom |-> Null]
NoPre == [xr |-> [start |-> Null, end |-> Null], yr |-> [start |-> Null, end |-> Null],
          ov |-> NoDrag]

\* The ranges and overlay bounds as they are now.
Snapshot == [xr |-> xr, yr |-> yr, ov |-> Bounds(overlay)]

\* new RangeTool(attrs): the defaults of the properties (x_range: null,
\* y_range: null, x_interaction: true, y_interaction: true, active: true),
\* the caller's ranges, the default or a supplied overlay.
InitRT ==
  /\ phase = "attrs"
  /\ xr = [start |-> Num(0), end |-> Num(MaxVal)]
  /\ yr = [start |-> Num(MaxVal), end |-> Num(0)]
  /\ x_range = "null"
  /\ y_range = "null"
  /\ x_interaction = TRUE
  /\ y_interaction = TRUE
  /\ active = TRUE
  /\ overlay \in {DEFAULT_RANGE_OVERLAY, SuppliedOverlay}
  /\ listeners = {}
  /\ todo = <<>>
  /\ ev = "new"
  /\ calls = <<>>
  /\ pre = NoPre
  /\ drag = NoDrag
  /\ emitting = "none"
  /\ n_events = 0
  \* the RendererView, not explored here
  /\ rv_connected = FALSE
  /\ x_range_name = "default"
  /\ y_range_name = "default"
  /\ coordinates = 0
  /\ frame = [xs |-> [n \in RangeNames |-> 0], ys |-> [n \in RangeNames |-> 0]]
  /\ _coordinates = NoTransform
  /\ init_count = 0
  /\ last_op = "new"
  /\ read_result = [ok |-> FALSE, t |-> NoTransform, err |-> ""]
  /\ invalidated = FALSE
  /\ run_inits = 0
  /\ run_ok_inits = 0
  /\ run_first = NoTransform
  /\ run_reads = 0
  /\ conn_at = 0
  \* resolve_node and the renderer group, not explored here
  /\ node = [target |-> "frame", symbol |-> "center", offset |-> 0]
  /\ rn_registered = FALSE
  /\ rn_bbox = NoBBox
  /\ rn_result = NotResolved
  /\ group_visible = TRUE
  /\ r_group = [r \in Renderers |-> "null"]
  /\ r_visible = [r \in Renderers |-> TRUE]
  /\ r_view = [r \in Renderers |-> "none"]
  /\ _has_finished = [r \in Renderers |-> FALSE]
  /\ gv_last = GVOp("new", 0, FALSE)

Quiescent == todo = <<>>

\* An event may be taken: no handler is under way, and the budget of events
\* on the connected view is not spent. Ranges are rebound and written, and the
\* interaction flags set, while the tool is constructed or once it is connected.
CanEvent == Quiescent /\ (phase = "attrs" \/ (phase = "connected" /\ n_events < MaxEvents))

\* The history of a new event e whose handler has `work` to run.
Begin(e, work) ==
  /\ ev' = e
  /\ todo' = work
  /\ calls' = <<>>
  /\ pre' = IF work = <<>> THEN NoPre ELSE Snapshot
  /\ emitting' = "none"
  /\ n_events' = IF phase = "connected" THEN n_events + 1 ELSE n_events

\* tool.x_range = v (constructor attribute, or a later assignment)
Set_x_range ==
  /\ CanEvent
  /\ \E v \in {"null", "xr"} \ {x_range} : x_range' = v
  /\ Begin("x_range", <<>>)
  /\ drag' = NoDrag
  /\ UNCHANGED <<phase, xr, yr, y_range, x_interaction, y_interaction, active, overlay,
                 listeners>>
  /\ UNCHANGED <<rvVars, rnVars, gvVars>>

\* tool.y_range = v
Set_y_range ==
  /\ CanEvent
  /\ \E v \in {"null", "yr"} \ {y_range} : y_range' = v
  /\ Begin("y_range", <<>>)
  /\ drag' = NoDrag
  /\ UNCHANGED <<phase, xr, yr, x_range, x_interaction, y_interaction, active, overlay,
                 listeners>>
  /\ UNCHANGED <<rvVars, rnVars, gvVars>>

\* tool.x_interaction = !tool.x_interaction
Set_x_interaction ==
  /\ CanEvent
  /\ x_interaction' = ~x_interaction
  /\ Begin("x_interaction", <<>>)
  /\ drag' = NoDrag
  /\ UNCHANGED <<phase, xr, yr, x_range, y_range, y_interaction, active, overlay,
                 listeners>>
  /\ UNCHANGED <<rvVars, rnVars, gvVars>>

\* tool.y_interaction = !tool.y_interaction
Set_y_interaction ==
  /\ CanEvent
  /\ y_interaction' = ~y_interaction
  /\ Begin("y_interaction", <<>>)
  /\ drag' = NoDrag
  /\ UNCHANGED <<phase, xr, yr, x_range, y_range, x_interaction, active, overlay,
                 listeners>>
  /\ UNCHANGED <<rvVars, rnVars, gvVars>>

\* tool.active = !tool.active, at any time; the view's listener exists once
\* connect_signals() has run.
Set_active ==
  /\ Quiescent /\ (phase = "connected" => n_events < MaxEvents)
  /\ active' = ~active
  /\ overlay' = IF phase = "connected" THEN on_active_change(overlay, active') ELSE overlay
  /\ Begin("active", <<>>)
  /\ drag' = NoDrag
  /\ UNCHANGED <<phase, xr, yr, x_range, y_range, x_interaction, y_interaction,
                 listeners>>
  /\ UNCHANGED <<rvVars, rnVars, gvVars>>

\* RangeTool.initialize(), at the end of construction.
RT_initialize ==
  /\ phase = "attrs"
  /\ phase' = "model"
  /\ overlay' = RangeTool_initialize(overlay, active, x_range, x_interaction,
                                     y_range, y_interaction)
  /\ Begin("initialize", <<>>)
  /\ drag' = NoDrag
  /\ UNCHANGED <<xr, yr, x_range, y_range, x_interaction, y_interaction, active,
                 listeners>>
  /\ UNCHANGED <<rvVars, rnVars, gvVars>>

\* RangeToolView.initialize()
RTV_initialize ==
  /\ phase = "model" /\ Quiescent
  /\ phase' = "view"
  /\ Begin("view_initialize", RangeToolView_initialize)
  /\ drag' = NoDrag
  /\ UNCHANGED <<xr, yr, x_range, y_range, x_interaction, y_interaction, active, overlay,
                 listeners>>
  /\ UNCHANGED <<rvVars, rnVars, gvVars>>

\* RangeToolView.connect_signals()
RTV_connect_signals ==
  /\ phase = "view" /\ Quiescent
  /\ phase' = "connected"
  /\ listeners' = connect_range_listeners(x_range, y_range)
  /\ Begin("connect_signals", <<>>)
  /\ drag' = NoDrag
  /\ UNCHANGED <<xr, yr, x_range, y_range, x_interaction, y_interaction, active, overlay>>
  /\ UNCHANGED <<rvVars, rnVars, gvVars>>

\* Code outside the tool writes a range: range.setv({start: s, end: e}).
RangeChange ==
  /\ CanEvent /\ phase = "connected"
  /\ \E obj \in {"xr", "yr"}, s \in NumVals, e \in NumVals :
       /\ [start |-> s, end |-> e] # (IF obj = "xr" THEN xr ELSE yr)
       /\ Begin("range_change", <<Op("setv", obj, s, e)>>)
  /\ drag' = NoDrag
  /\ UNCHANGED <<phase, xr, yr, x_range, y_range, x_interaction, y_interaction, active,
                 overlay, listeners>>
  /\ UNCHANGED <<rvVars, rnVars, gvVars>>

\* The user starts to drag the overlay: overlay.pan emits "pan:start".
PanStart ==
  /\ CanEvent /\ phase = "connected" /\ Draggable(overlay)
  /\ Begin("pan:start", on_pan("pan:start"))
  /\ drag' = NoDrag
  /\ UNCHANGED <<phase, xr, yr, x_range, y_range, x_interaction, y_interaction, active,
                 overlay, listeners>>
  /\ UNCHANGED <<rvVars, rnVars, gvVars>>

\* The user drags the overlay: the box annotation takes the bounds of the drag
\* and overlay.pan emits "pan".
Pan ==
  /\ CanEvent /\ phase = "connected" /\ Draggable(overlay)
  /\ \E l \in NumVals, r \in NumVals, b \in NumVals, t \in NumVals :
       /\ overlay' = BoxAnnotation_drag(overlay, l, r, t, b)
       /\ drag' = Bounds(overlay')
  /\ Begin("pan", on_pan("pan"))
  /\ UNCHANGED <<phase, xr, yr, x_range, y_range, x_interaction, y_interaction, active,
                 listeners>>
  /\ UNCHANGED <<rvVars, rnVars, gvVars>>

\* The user releases the overlay: overlay.pan emits "pan:end".
PanEnd ==
  /\ CanEvent /\ phase = "connected" /\ Draggable(overlay)
  /\ Begin("pan:end", on_pan("pan:end"))
  /\ drag' = NoDrag
  /\ UNCHANGED <<phase, xr, yr, x_range, y_range, x_interaction, y_interaction, active,
                 overlay, listeners>>
  /\ UNCHANGED <<rvVars, rnVars, gvVars>>

\* The history of a step of the handler under way.
Continue == pre' = IF todo' = <<>> /\ emitting' = "none" THEN NoPre ELSE pre

\* The call of update_ranges_from_overlay() at the head of todo.
Do_update_ranges_from_overlay ==
  /\ todo # <<>> /\ Head(todo).op = "urfo"
  /\ calls' = Append(calls, [proc |-> "update_ranges_from_overlay", by |-> Head(todo).obj])
  /\ todo' = update_ranges_from_overlay(overlay, x_range, x_interaction,
                                        y_range, y_interaction) \o Tail(todo)
  /\ emitting' = "none"
  /\ Continue
  /\ UNCHANGED <<phase, xr, yr, x_range, y_range, x_interaction, y_interaction, active,
                 overlay, listeners, ev, drag, n_events>>
  /\ UNCHANGED <<rvVars, rnVars, gvVars>>

\* The write of a range at the head of todo: the new value is stored, then,
\* if it differs from the old one, `change` is emitted to the listeners.
Do_setv ==
  /\ todo # <<>> /\ Head(todo).op \in {"setv", "set_start", "set_end"}
  /\ LET o == Head(todo)
         old == IF o.obj = "xr" THEN xr ELSE yr
         new == Range1d_setv(old, o)
         changed == new # old
     IN  /\ xr' = IF o.obj = "xr" THEN new ELSE xr
         /\ yr' = IF o.obj = "yr" THEN new ELSE yr
         /\ emitting' = IF changed THEN o.obj ELSE "none"
         /\ todo' = (IF changed /\ o.obj \in listeners THEN on_range_change(o.obj) ELSE <<>>)
                    \o Tail(todo)
  /\ Continue
  /\ UNCHANGED <<phase, x_range, y_range, x_interaction, y_interaction, active,
                 overlay, listeners, ev, calls, drag, n_events>>
  /\ UNCHANGED <<rvVars, rnVars, gvVars>>

\* The call of update_overlay_from_ranges() at the head of todo.
Do_update_overlay_from_ranges ==
  /\ todo # <<>> /\ Head(todo).op = "uofr"
  /\ LET u == update_overlay_from_ranges(overlay, x_range, xr, y_range, yr)
         c == Append(calls, [proc |-> "update_overlay_from_ranges", by |-> Head(todo).obj])
     IN  /\ overlay' = u.overlay
         /\ calls' = IF u.warn
                       THEN Append(c, [proc |-> "logger.warn", by |-> "update_overlay_from_ranges"])
                       ELSE c
  /\ todo' = Tail(todo)
  /\ emitting' = "none"
  /\ Continue
  /\ UNCHANGED <<phase, xr, yr, x_range, y_range, x_interaction, y_interaction, active,
                 listeners, ev, drag, n_events>>
  /\ UNCHANGED <<rvVars, rnVars, gvVars>>

\* The call of plot_view.trigger_ranges_update_event() at the head of todo.
Do_trigger_ranges_update_event ==
  /\ todo # <<>> /\ Head(todo).op = "trigger"
  /\ calls' = Append(calls, [proc |-> "trigger_ranges_update_event", by |-> Head(todo).obj])
  /\ todo' = Tail(todo)
  /\ emitting' = "none"
  /\ Continue
  /\ UNCHANGED <<phase, xr, yr, x_range, y_range, x_interaction, y_interaction, active,
                 overlay, listeners, ev, drag, n_events>>
  /\ UNCHANGED <<rvVars, rnVars, gvVars>>

\* A step of the handler under way.
Step ==
  \/ Do_update_ranges_from_overlay
  \/ Do_setv
  \/ Do_update_overlay_from_ranges
  \/ Do_trigger_ranges_update_event

NextRT ==
  \/ Set_x_range
  \/ Set_y_range
  \/ Set_x_interaction
  \/ Set_y_interaction
  \/ Set_active
  \/ RT_initialize
  \/ RTV_initialize
  \/ RTV_connect_signals
  \/ RangeChange
  \/ PanStart
  \/ Pan
  \/ PanEnd
  \/ Do_update_ranges_from_overlay
  \/ Do_setv
  \/ Do_update_overlay_from_ranges
  \/ Do_trigger_ranges_update_event

\* A renderer with its property defaults, on a plot whose frame has the
\* default ranges; the view has not connected its signals yet.
InitRV ==
  /\ rv_connected = FALSE
  /\ x_range_name = "default"
  /\ y_range_name = "default"
  /\ coordinates \in {0} \cup Mappings
  /\ frame \in {f \in Frames : f.xs["default"] # 0 /\ f.ys["default"] # 0}
  /\ _coordinates = NoTransform
  /\ init_count = 0
  /\ last_op = "new"
  /\ read_result = [ok |-> FALSE, t |-> NoTransform, err |-> ""]
  /\ invalidated = FALSE
  /\ run_inits = 0
  /\ run_ok_inits = 0
  /\ run_first = NoTransform
  /\ run_reads = 0
  /\ conn_at = 0
  \* the RangeTool, not explored here
  /\ phase = "attrs"
  /\ xr = [start |-> Num(0), end |-> Num(0)]
  /\ yr = [start |-> Num(0), end |-> Num(0)]
  /\ x_range = "null"
  /\ y_range = "null"
  /\ x_interaction = TRUE
  /\ y_interaction = TRUE
  /\ active = TRUE
  /\ overlay = DEFAULT_RANGE_OVERLAY
  /\ listeners = {}
  /\ todo = <<>>
  /\ ev = "new"
  /\ calls = <<>>
  /\ pre = NoPre
  /\ drag = NoDrag
  /\ emitting = "none"
  /\ n_events = 0
  \* resolve_node and the renderer group, not explored here
  /\ node = [target |-> "frame", symbol |-> "center", offset |-> 0]
  /\ rn_registered = FALSE
  /\ rn_bbox = NoBBox
  /\ rn_result = NotResolved
  /\ group_visible = TRUE
  /\ r_group = [r \in Renderers |-> "null"]
  /\ r_visible = [r \in Renderers |-> TRUE]
  /\ r_view = [r \in Renderers |-> "none"]
  /\ _has_finished = [r \in Renderers |-> FALSE]
  /\ gv_last = GVOp("new", 0, FALSE)

\* A view asked to resolve a node: any target, symbol and offset, the target
\* renderer with or without a view, the resolved target with or without a bbox.
InitRN ==
  /\ node \in [target : NodeTargets, symbol : Symbols, offset : Offsets]
  /\ rn_registered \in BOOLEAN
  /\ rn_bbox \in BBoxes \cup {NoBBox}
  /\ rn_result = NotResolved
  \* the coordinate cache, the RangeTool and the renderer group, not explored here
  /\ rv_connected = FALSE
  /\ x_range_name = "default"
  /\ y_range_name = "default"
  /\ coordinates = 0
  /\ frame = [xs |-> [n \in RangeNames |-> 0], ys |-> [n \in RangeNames |-> 0]]
  /\ _coordinates = NoTransform
  /\ init_count = 0
  /\ last_op = "new"
  /\ read_result = [ok |-> FALSE, t |-> NoTransform, err |-> ""]
  /\ invalidated = FALSE
  /\ run_inits = 0
  /\ run_ok_inits = 0
  /\ run_first = NoTransform
  /\ run_reads = 0
  /\ conn_at = 0
  /\ phase = "attrs"
  /\ xr = [start |-> Num(0), end |-> Num(0)]
  /\ yr = [start |-> Num(0), end |-> Num(0)]
  /\ x_range = "null"
  /\ y_range = "null"
  /\ x_interaction = TRUE
  /\ y_interaction = TRUE
  /\ active = TRUE
  /\ overlay = DEFAULT_RANGE_OVERLAY
  /\ listeners = {}
  /\ todo = <<>>
  /\ ev = "new"
  /\ calls = <<>>
  /\ pre = NoPre
  /\ drag = NoDrag
  /\ emitting = "none"
  /\ n_events = 0
  /\ group_visible = TRUE
  /\ r_group = [r \in Renderers |-> "null"]
  /\ r_visible = [r \in Renderers |-> TRUE]
  /\ r_view = [r \in Renderers |-> "none"]
  /\ _has_finished = [r \in Renderers |-> FALSE]
  /\ gv_last = GVOp("new", 0, FALSE)

\* Renderers constructed with or without the group and with either value of
\* visible; no view has connected its signals yet.
InitGV ==
  /\ group_visible \in BOOLEAN
  /\ r_group \in [Renderers -> {"null", "g"}]
  /\ r_visible \in [Renderers -> BOOLEAN]
  /\ r_view = [r \in Renderers |-> "none"]
  /\ _has_finished = [r \in Renderers |-> FALSE]
  /\ gv_last = GVOp("new", 0, FALSE)
  \* the coordinate cache, the RangeTool and resolve_node, not explored here
  /\ rv_connected = FALSE
  /\ x_range_name = "default"
  /\ y_range_name = "default"
  /\ coordinates = 0
  /\ frame = [xs |-> [n \in RangeNames |-> 0], ys |-> [n \in RangeNames |-> 0]]
  /\ _coordinates = NoTransform
  /\ init_count = 0
  /\ last_op = "new"
  /\ read_result = [ok |-> FALSE, t |-> NoTransform, err |-> ""]
  /\ invalidated = FALSE
  /\ run_inits = 0
  /\ run_ok_inits = 0
  /\ run_first = NoTransform
  /\ run_reads = 0
  /\ conn_at = 0
  /\ phase = "attrs"
  /\ xr = [start |-> Num(0), end |-> Num(0)]
  /\ yr = [start |-> Num(0), end |-> Num(0)]
  /\ x_range = "null"
  /\ y_range = "null"
  /\ x_interaction = TRUE
  /\ y_interaction = TRUE
  /\ active = TRUE
  /\ overlay = DEFAULT_RANGE_OVERLAY
  /\ listeners = {}
  /\ todo = <<>>
  /\ ev = "new"
  /\ calls = <<>>
  /\ pre = NoPre
  /\ drag = NoDrag
  /\ emitting = "none"
  /\ n_events = 0
  /\ node = [target |-> "frame", symbol |-> "center", offset |-> 0]
  /\ rn_registered = FALSE
  /\ rn_bbox = NoBBox
  /\ rn_result = NotResolved

SpecRV == InitRV /\ [][NextRV]_vars

SpecRN == InitRN /\ [][NextRN]_vars

SpecGV == InitGV /\ [][NextGV]_vars

SpecRT == InitRT /\ [][NextRT]_vars

\* A handler that has begun runs to its end (run-to-completion of the
\* single-threaded event loop).
FairSpecRT == SpecRT /\ WF_vars(Step)

(***************************************************************************)
(* Claims about RendererView                                               *)
(***************************************************************************)

InvalidatingOps == {"x_range_name", "y_range_name", "frame_change"}

\* C1: on a view with connected signals, a change of x_range_name, a change of
\* y_range_name or a firing of frame.change clears the cached transform and
\* runs no _initialize_coordinates; the next read of `coordinates` after such
\* an event runs _initialize_coordinates exactly once.
C1_InvalidateThenRecompute ==
  [][ /\ (rv_connected /\ last_op' \in InvalidatingOps)
           => (_coordinates' = NoTransform /\ init_count' = init_count)
      /\ (invalidated /\ last_op' = "read")
           => init_count' = init_count + 1 ]_vars

\* A read that recomputed a transform after an event had cleared a filled cache.
C1_Witness ==
  /\ rv_connected
  /\ last_op = "read"
  /\ read_result.ok
  /\ run_inits = 1
  /\ init_count >= 2
  /\ read_result.t.id = init_count
  /\ conn_at = 0

\* C2 as stated: over consecutive reads with no invalidating event between
\* them, _initialize_coordinates runs at most once and every read returns the
\* transform object the first read returned.
C2_AtMostOneInitialize ==
  /\ run_inits <= 1
  /\ (last_op = "read" /\ run_first # NoTransform) => read_result.t = run_first

\* C2 amended: over consecutive reads with no invalidating event between them,
\* once a read has returned a transform every later read returns that same
\* object and _initialize_coordinates produces a transform at most once; only
\* reads that fail the missing-range assertion run it again.
C2_CachedOnceReturned ==
  /\ run_ok_inits <= 1
  /\ (last_op = "read" /\ run_first # NoTransform)
       => (read_result.ok /\ read_result.t = run_first)

\* Two or more reads in a row served from one computation, also across a
\* change of model.coordinates (which is no invalidating event).
C2_Witness ==
  /\ last_op = "read"
  /\ run_reads >= 2
  /\ run_inits = 1
  /\ read_result.ok
  /\ read_result.t = run_first

\* C3: the transform a read returns equals the transform
\* _initialize_coordinates would compute from the inputs as they are at the
\* time of the read. Stated for transforms computed after connect_signals().
C3_NeverStale ==
  (rv_connected /\ last_op = "read" /\ read_result.ok /\ read_result.t.id > conn_at)
    => Content(read_result.t)
         = Content(_initialize_coordinates(coordinates, frame, x_range_name,
                                           y_range_name, 0).t)

\* The model has no explicit mapping and this range name is absent from the frame.
MissingRange ==
  IF frame.xs[x_range_name] = 0 THEN x_range_name
  ELSE IF frame.ys[y_range_name] = 0 THEN y_range_name
  ELSE ""

\* C12: for a renderer without an explicit coordinates mapping, if
\* x_range_name or y_range_name is absent from the frame's scales, a read of
\* `coordinates` fails with the assertion error "missing '<name>' range" and
\* returns no transform. Stated for a view with connected signals, transforms
\* cached before connect_signals() left aside.
C12_MissingRangeFails ==
  ( /\ rv_connected /\ last_op = "read"
    /\ coordinates = 0 /\ MissingRange # ""
    /\ ~(read_result.ok /\ read_result.t.id <= conn_at) )
    => /\ ~read_result.ok
       /\ read_result.t = NoTransform
       /\ read_result.err = MissingRange

\* C13: for a renderer whose model carries an explicit `coordinates` mapping,
\* a run of _initialize_coordinates returns that mapping's transform resolved
\* against the frame and does not look up x_range_name / y_range_name: it
\* succeeds, with the same result, whatever the two names are, also when they
\* are absent from the frame's scales.
C13_MappingIgnoresRangeNames ==
  [][ (last_op' = "read" /\ init_count' # init_count /\ coordinates # 0)
        => /\ read_result' = [ok |-> TRUE,
                              t |-> get_transform(coordinates, frame, init_count'),
                              err |-> ""]
           /\ \A xn \in RangeNames, yn \in RangeNames :
                _initialize_coordinates(coordinates, frame, xn, yn, init_count')
                  = read_result' ]_vars

\* A read that computed the transform of an explicit mapping while both range
\* names were absent from the frame.
C13_Witness ==
  /\ last_op = "read" /\ run_inits = 1 /\ run_reads = 1
  /\ coordinates # 0
  /\ frame.xs[x_range_name] = 0 /\ frame.ys[y_range_name] = 0
  /\ read_result.ok
  /\ read_result.t = get_transform(coordinates, frame, init_count)

(***************************************************************************)
(* Claims about RendererView.resolve_node                                  *)
(***************************************************************************)

Coords == {NaN} \cup {Fin(n) : n \in (0 - MaxOffset)..(3 * MaxBox + MaxOffset)}

\* C15: resolve_node never fails: it returns a point whatever the node is,
\* and when the node's target is a Renderer with no registered view in the
\* plot view, or the resolved target exposes no bounding box, the point is
\* {x: NaN, y: NaN} for every symbol and every offset.
C15_SoftFailure ==
  rn_result.done =>
    /\ rn_result.x \in Coords /\ rn_result.y \in Coords
    /\ ((node.target = "renderer" /\ ~rn_registered) \/ ~rn_bbox.has)
         => (rn_result.x = NaN /\ rn_result.y = NaN)

\* A node on a renderer that has no view, resolved with a nonzero offset for
\* a corner symbol, although a bounding box was at hand.
C15_Witness ==
  /\ rn_result.done
  /\ node.target = "renderer" /\ ~rn_registered /\ rn_bbox.has
  /\ node.symbol = "top_left" /\ node.offset # 0
  /\ rn_result.x = NaN /\ rn_result.y = NaN

\* The node's target resolves to an object, and that object has a bounding box.
TargetWithBBox ==
  /\ node.target \in {"canvas", "frame", "plot", "parent"}
       \/ (node.target = "renderer" /\ rn_registered)
  /\ rn_bbox.has

\* The x and y a symbol stands for: an anchor of the bbox plus the offset, or NaN.
AnchorX ==
  CASE node.symbol \in {"top_left", "center_left", "bottom_left", "left"}
         -> Fin(rn_bbox.left + node.offset)
    [] node.symbol \in {"top_center", "center_center", "bottom_center", "center"}
         -> Fin(rn_bbox.hcenter + node.offset)
    [] node.symbol \in {"top_right", "center_right", "bottom_right", "right"}
         -> Fin(rn_bbox.right + node.offset)
    [] OTHER -> NaN

AnchorY ==
  CASE node.symbol \in {"top_left", "top_center", "top_right", "top"}
         -> Fin(rn_bbox.top + node.offset)
    [] node.symbol \in {"center_left", "center_center", "center_right", "center"}
         -> Fin(rn_bbox.vcenter + node.offset)
    [] node.symbol \in {"bottom_left", "bottom_center", "bottom_right", "bottom"}
         -> Fin(rn_bbox.bottom + node.offset)
    [] OTHER -> NaN

\* The symbols resolve_node maps to an anchor: those with a defined coordinate.
MappedSymbols ==
  {s \in Symbols :
     LET p == resolve_node([target |-> "frame", symbol |-> s, offset |-> 0],
                           TRUE, BBox(0, 0, 2, 2))
     IN  ~p.x.nan \/ ~p.y.nan}

\* C16 as stated: for a target with a bounding box resolve_node maps each of
\* the 13 symbols to the matching bbox anchor with the offset added to both
\* coordinates: two defined coordinates for the nine corner / edge-centre
\* symbols and 'center', a defined y with x = NaN for 'top' and 'bottom', a
\* defined x with y = NaN for 'left' and 'right'.
C16_ThirteenSymbols ==
  (rn_result.done /\ TargetWithBBox) =>
    /\ Cardinality(MappedSymbols) = 13
    /\ rn_result.x = AnchorX /\ rn_result.y = AnchorY

\* C16 amended: the symbols so mapped are 14: the nine corner / edge-centre
\* symbols, 'center', 'top', 'bottom', 'left' and 'right'; any other symbol
\* gives {NaN, NaN}.
C16_FourteenSymbols ==
  (rn_result.done /\ TargetWithBBox) =>
    /\ MappedSymbols = AnchorNames /\ Cardinality(MappedSymbols) = 14
    /\ rn_result.x = AnchorX /\ rn_result.y = AnchorY
    /\ node.symbol \in {"top", "bottom"} => (rn_result.x = NaN /\ ~rn_result.y.nan)
    /\ node.symbol \in {"left", "right"} => (~rn_result.x.nan /\ rn_result.y = NaN)
    /\ node.symbol \in AnchorNames \ {"top", "bottom", "left", "right"}
         => (~rn_result.x.nan /\ ~rn_result.y.nan)

\* 'bottom_right' of a box whose left differs from its top, resolved with a
\* nonzero offset for a renderer that has a view.
C16_Witness ==
  /\ rn_result.done /\ TargetWithBBox
  /\ node.target = "renderer" /\ node.symbol = "bottom_right" /\ node.offset # 0
  /\ rn_bbox.left # rn_bbox.top
  /\ rn_result.x = Fin(rn_bbox.right + node.offset)
  /\ rn_result.y = Fin(rn_bbox.bottom + node.offset)

(***************************************************************************)
(* Claims about Renderer.visible and the RendererGroup                     *)
(***************************************************************************)

\* C19: group visibility is mirrored, not computed live: `displayed` equals
\* model.visible whatever the group's visible is (render() paints exactly when
\* model.visible is true), and after each change notification of
\* group.visible every renderer with a connected view that references the
\* group has model.visible equal to group.visible, also when its own visible
\* flag had been set to another value before.
C19_GroupVisibilityMirrored ==
  /\ gv_last.op = "render" => gv_last.painted = r_visible[gv_last.r]
  /\ gv_last.op = "group_visible"
       => \A r \in Renderers :
            (r_view[r] # "none" /\ r_group[r] = "g") => r_visible[r] = group_visible

(***************************************************************************)
(* Claims about RangeTool / RangeToolView                                  *)
(***************************************************************************)

BothBound == x_range = "xr" /\ y_range = "yr"
BothInteract == x_interaction /\ y_interaction
XRangeIs(l, r) == xr = [start |-> l, end |-> r]
YRangeIs(b, t) == yr = [start |-> b, end |-> t]
CallsOf(p) == {i \in DOMAIN calls : calls[i].proc = p}

\* C4: with both ranges bound and both interaction flags true,
\* update_overlay_from_ranges() leaves the overlay at left = x_range.start,
\* right = x_range.end, bottom = y_range.start, top = y_range.end, and
\* update_ranges_from_overlay(), called with the overlay at (L, R, B, T),
\* leaves x_range = {L, R} and y_range = {B, T}.
C4_RoundTrip ==
  /\ [][ (todo # <<>> /\ Head(todo).op = "uofr" /\ BothBound /\ BothInteract)
           => /\ overlay'.left = xr.start /\ overlay'.right = xr.end
              /\ overlay'.bottom = yr.start /\ overlay'.top = yr.end ]_vars
  /\ []( (ev = "pan" /\ Quiescent /\ BothBound /\ BothInteract)
           => XRangeIs(drag.left, drag.right) /\ YRangeIs(drag.bottom, drag.top) )

\* A drag to bounds that tell all four sides apart from the old ranges, handled
\* to the end, after the overlay had been seeded from the ranges.
C4_Witness ==
  /\ ev = "pan" /\ Quiescent /\ BothBound /\ BothInteract
  /\ drag.bottom # drag.top
  /\ XRangeIs(drag.left, drag.right) /\ YRangeIs(drag.bottom, drag.top)
  /\ xr # [start |-> Num(0), end |-> Num(MaxVal)]
  /\ yr # [start |-> Num(MaxVal), end |-> Num(0)]
  /\ CallsOf("update_overlay_from_ranges") # {}

StartUp == {"initialize", "view_initialize", "connect_signals"}

\* C5: RangeTool.initialize, RangeToolView.initialize and
\* RangeToolView.connect_signals leave the start and end of x_range and
\* y_range unchanged; the overlay is what they write, and once the view is
\* initialized it holds the bounds of the ranges that are bound.
C5_StartUpKeepsRanges ==
  /\ [][ ev' \in StartUp => (xr' = xr /\ yr' = yr) ]_vars
  /\ []( (ev = "view_initialize" /\ Quiescent)
           => /\ x_range = "xr" => (overlay.left = xr.start /\ overlay.right = xr.end)
              /\ y_range = "yr" => (overlay.bottom = yr.start /\ overlay.top = yr.end) )

\* A connected tool with both ranges bound, right after start-up.
C5_Witness ==
  /\ phase = "connected" /\ ev = "connect_signals"
  /\ BothBound /\ BothInteract
  /\ xr = [start |-> Num(0), end |-> Num(MaxVal)]
  /\ yr = [start |-> Num(MaxVal), end |-> Num(0)]
  /\ overlay.left = xr.start /\ overlay.right = xr.end
  /\ overlay.bottom = yr.start /\ overlay.top = yr.end

\* C6: the two update procedures never trigger each other in a cycle:
\* update_ranges_from_overlay() runs only as the direct handler of a pan event,
\* never as a consequence of update_overlay_from_ranges() or of a range
\* change, and every handler that has begun reaches a state with nothing
\* pending.
C6_NoCycle ==
  /\ []( \A i \in CallsOf("update_ranges_from_overlay") : i = 1 /\ calls[i].by = "pan" )
  /\ []( ev = "range_change" => CallsOf("update_ranges_from_overlay") = {} )
  /\ (~Quiescent ~> Quiescent)

\* A drag whose handling ran both procedures, the second as a callback of
\* both ranges, and came to rest.
C6_Witness ==
  /\ ev = "pan" /\ Quiescent
  /\ Len(calls) = 3
  /\ calls[1].proc = "update_ranges_from_overlay"
  /\ calls[2] = [proc |-> "update_overlay_from_ranges", by |-> "xr"]
  /\ calls[3] = [proc |-> "update_overlay_from_ranges", by |-> "yr"]

\* C7 as stated: while a pan event with state 'pan' is handled,
\* update_overlay_from_ranges() is not invoked, directly or through callbacks.
C7_NoOverlayUpdateDuringPan ==
  ev = "pan" => CallsOf("update_overlay_from_ranges") = {}

\* C7 amended: the handler of a pan event with state 'pan' calls
\* update_ranges_from_overlay() and nothing else; update_overlay_from_ranges()
\* runs while the event is handled only as the change callback of a range the
\* view listens to, at most once for each range.
C7_OverlayUpdateOnlyAsCallback ==
  ev = "pan" =>
    /\ calls # <<>> => calls[1] = [proc |-> "update_ranges_from_overlay", by |-> "pan"]
    /\ \A i \in DOMAIN calls : i > 1 =>
         /\ calls[i].proc = "update_overlay_from_ranges"
         /\ calls[i].by \in listeners
         /\ \A j \in DOMAIN calls : calls[j] = calls[i] => j = i

\* A drag during whose handling update_overlay_from_ranges() ran as a callback.
C7_Witness ==
  /\ ev = "pan" /\ Quiescent
  /\ CallsOf("update_overlay_from_ranges") # {}

XWritten == x_range = "xr" /\ x_interaction
YWritten == y_range = "yr" /\ y_interaction

\* C8 as stated: a change listener fired while a pan event is handled sees
\* the whole update applied: every range the tool writes is at the dragged
\* bounds and so is the overlay.
C8_ListenersSeeWholeUpdate ==
  (ev = "pan" /\ emitting # "none") =>
    /\ XWritten => XRangeIs(drag.left, drag.right)
    /\ YWritten => YRangeIs(drag.bottom, drag.top)
    /\ Bounds(overlay) = drag

\* C8 amended: each range is written whole (start and end in one setv), x_range
\* before y_range: a change listener fired while a pan event is handled sees
\* the emitting range at the dragged bounds, x_range at the dragged bounds
\* whenever y_range emits, and every range either at its bounds from before
\* the event or at the dragged bounds, never at a mix of the two.
C8_EachRangeWhole ==
  (ev = "pan" /\ emitting # "none") =>
    /\ xr \in {pre.xr, [start |-> drag.left, end |-> drag.right]}
    /\ yr \in {pre.yr, [start |-> drag.bottom, end |-> drag.top]}
    /\ emitting = "xr" => XRangeIs(drag.left, drag.right)
    /\ emitting = "yr" => YRangeIs(drag.bottom, drag.top)
    /\ (emitting = "yr" /\ XWritten) => XRangeIs(drag.left, drag.right)

\* The listeners of x_range.change fire while y_range, which the same drag
\* moves, still holds its bounds from before the event.
C8_Witness ==
  /\ ev = "pan" /\ emitting = "xr"
  /\ XWritten /\ YWritten
  /\ XRangeIs(drag.left, drag.right)
  /\ yr = pre.yr
  /\ ~YRangeIs(drag.bottom, drag.top)

\* C9: right after RangeTool.initialize the overlay's movable and resizable
\* follow has_x = (x_range bound and x_interaction) and has_y = (y_range bound
\* and y_interaction): both -> "both"/"all", only has_x -> "x"/"x", only
\* has_y -> "y"/"y", neither -> "none"/"none", whatever order the properties
\* were assigned in.
C9_MovableDerivation ==
  ev = "initialize" =>
    LET has_x == x_range = "xr" /\ x_interaction
        has_y == y_range = "yr" /\ y_interaction
    IN  /\ (has_x /\ has_y) => (overlay.movable = "both" /\ overlay.resizable = "all")
        /\ (has_x /\ ~has_y) => (overlay.movable = "x" /\ overlay.resizable = "x")
        /\ (~has_x /\ has_y) => (overlay.movable = "y" /\ overlay.resizable = "y")
        /\ (~has_x /\ ~has_y) => (overlay.movable = "none" /\ overlay.resizable = "none")

\* Both ranges bound, y_interaction false: the overlay moves along x only.
C9_Witness ==
  /\ ev = "initialize"
  /\ BothBound /\ x_interaction /\ ~y_interaction
  /\ overlay.movable = "x" /\ overlay.resizable = "x"

\* C10: once RangeTool.initialize has run, no step changes the overlay's
\* movable or resizable value.
C10_MovableFixed ==
  [][ phase # "attrs"
        => (overlay'.movable = overlay.movable /\ overlay'.resizable = overlay.resizable) ]_vars

\* A connected tool whose x_interaction was switched off and whose active flag
\* was toggled after initialization, the overlay still movable along x.
C10_Witness ==
  /\ phase = "connected" /\ ev = "active" /\ ~active
  /\ x_range = "xr" /\ ~x_interaction
  /\ overlay.movable \in {"x", "both"}
  /\ ~overlay.editable

\* C11: the overlay's editable flag mirrors the tool's active flag: once
\* RangeTool.initialize has run, and after every toggle of `active`,
\* overlay.editable equals tool.active.
C11_EditableMirrorsActive ==
  phase # "attrs" => overlay.editable = active

\* C14: when both x_range and y_range are null, update_overlay_from_ranges()
\* logs a warning, does not throw (the call returns and what remains of the
\* handler goes on), and leaves the overlay cleared: overlay.clear() is its
\* last mutation, so no bound of the overlay remains set.
C14_UnboundWarnsAndClears ==
  [][ (todo # <<>> /\ Head(todo).op = "uofr" /\ x_range = "null" /\ y_range = "null")
        => /\ calls' = calls \o
                 <<[proc |-> "update_overlay_from_ranges", by |-> Head(todo).obj],
                   [proc |-> "logger.warn", by |-> "update_overlay_from_ranges"]>>
           /\ Bounds(overlay') = NoDrag
           /\ todo' = Tail(todo) ]_vars

\* A tool built without ranges: the view's initialize() has run
\* update_overlay_from_ranges(), which logged the warning and left no bounds.
C14_Witness ==
  /\ ev = "view_initialize" /\ Quiescent
  /\ x_range = "null" /\ y_range = "null"
  /\ calls = <<[proc |-> "update_overlay_from_ranges", by |-> "initialize"],
               [proc |-> "logger.warn", by |-> "update_overlay_from_ranges"]>>
  /\ Bounds(overlay) = NoDrag

\* C17: an overlay pan event with state 'pan:end' calls the plot view's
\* trigger_ranges_update_event() exactly once and changes neither the start or
\* end of a range nor the overlay's left, right, top or bottom; on no other
\* event does the tool call trigger_ranges_update_event().
C17_PanEndTriggersOnce ==
  /\ []( (ev = "pan:end" /\ Quiescent)
           => calls = <<[proc |-> "trigger_ranges_update_event", by |-> "pan:end"]>> )
  /\ [][ ev' = "pan:end"
           => (xr' = xr /\ yr' = yr /\ Bounds(overlay') = Bounds(overlay)) ]_vars
  /\ []( ev # "pan:end" => CallsOf("trigger_ranges_update_event") = {} )

\* The end of a drag that had moved x_range: the plot was notified once.
C17_Witness ==
  /\ ev = "pan:end" /\ Quiescent
  /\ calls = <<[proc |-> "trigger_ranges_update_event", by |-> "pan:end"]>>
  /\ x_range = "xr" /\ xr # [start |-> Num(0), end |-> Num(MaxVal)]
  /\ overlay.left = xr.start /\ overlay.right = xr.end

\* The writes a call of update_ranges_from_overlay() at the head of todo has
\* put in front of what was pending.
WritesOfCall == SubSeq(todo', 1, Len(todo') - Len(Tail(todo)))

\* C18: update_ranges_from_overlay() writes a range only for an axis whose
\* range is bound and whose interaction flag is true at the time of the call:
\* whatever the overlay holds, a range whose flag is false (or that is not
\* bound) keeps its start and end while the drag is handled, and each written
\* range receives start and end in one setv call.
C18_WritesOnlyInteractiveAxes ==
  /\ [][ (todo # <<>> /\ Head(todo).op = "urfo")
           => /\ \A i \in DOMAIN WritesOfCall : WritesOfCall[i].op = "setv"
              /\ {WritesOfCall[i].obj : i \in DOMAIN WritesOfCall}
                   = (IF XWritten THEN {"xr"} ELSE {}) \cup (IF YWritten THEN {"yr"} ELSE {})
              /\ Len(WritesOfCall) = (IF XWritten THEN 1 ELSE 0) + (IF YWritten THEN 1 ELSE 0)
              /\ \A i \in DOMAIN WritesOfCall :
                   /\ WritesOfCall[i].obj = "xr"
                        => (WritesOfCall[i].a = overlay.left /\ WritesOfCall[i].b = overlay.right)
                   /\ WritesOfCall[i].obj = "yr"
                        => (WritesOfCall[i].a = overlay.bottom /\ WritesOfCall[i].b = overlay.top) ]_vars
  /\ [][ ev' = "pan" => /\ ~XWritten => xr' = xr
                        /\ ~YWritten => yr' = yr ]_vars

\* A drag handled to the end with x_range bound and x_interaction false: the
\* drag moved the overlay away from x_range, y_range took the dragged bounds,
\* x_range kept its own.
C18_Witness ==
  /\ ev = "pan" /\ Quiescent
  /\ x_range = "xr" /\ ~x_interaction /\ YWritten
  /\ xr = [start |-> Num(0), end |-> Num(MaxVal)]
  /\ (drag.left # xr.start \/ drag.right # xr.end)
  /\ YRangeIs(drag.bottom, drag.top)
  /\ yr # [start |-> Num(MaxVal), end |-> Num(0)]

\* C20: with both ranges bound and both interaction flags true, once a 'pan'
\* event fired with the overlay at (L, R, B, T) has been handled to the end,
\* the range-change callbacks it triggers included, x_range = {L, R},
\* y_range = {B, T} and the overlay's left, right, bottom and top are still
\* L, R, B, T.
C20_DragConverges ==
  (ev = "pan" /\ Quiescent /\ BothBound /\ BothInteract)
    => /\ XRangeIs(drag.left, drag.right)
       /\ YRangeIs(drag.bottom, drag.top)
       /\ overlay.left = drag.left /\ overlay.right = drag.right
       /\ overlay.bottom = drag.bottom /\ overlay.top = drag.top

====
